---- MODULE Spec2Model ----
(***************************************************************************)
(* A model of autozotero: the catalog client's rate-limit wrapper and      *)
(* duplicate cache (src/src/zotero_utils.py), the import workflow          *)
(* process_pdf and the refresh check_and_update_metadata                   *)
(* (src/src/updater.py), the batch driver (src/main.py) and the metadata   *)
(* extractor (src/src/metadata.py).                                        *)
(*                                                                         *)
(* The module holds one state machine per component, over groups of        *)
(* variables.  Each has its own specification, in which the variables of   *)
(* the machines it does not call stay at their initial values.             *)
(***************************************************************************)
EXTENDS Integers, Sequences, FiniteSets, TLC

\* ------------------------------------------------------------------ bounds

\* Largest value of a Backoff / Retry-After header, in seconds.
MaxHint == 2
\* No client operation starts once the clock has reached MaxTime.
MaxTime == 1
\* process_pdf is called at most MaxRuns times.
MaxRuns == 2
\* The catalog holds at most MaxInitAtt attachments before the first call.
MaxInitAtt == 1
\* A batch of main holds at most MaxItems items.
MaxItems == 3
\* The 'authors' list of a reply holds at most MaxAuthors entries.
MaxAuthors == 2
\* The 'tags' list of a reply holds at most MaxTags entries.
MaxTags == 1
\* The text given to _extract_json_from_text has at most MaxTextLen characters.
MaxTextLen == 4
\* extract_metadata is called at most MaxCalls times on one MetadataExtractor.
MaxCalls == 3
\* check_and_update_metadata is called at most MaxRefreshes times on the item.
MaxRefreshes == 2
\* check_duplicate is called at most MaxChecks times on one client.
MaxChecks == 3
\* The catalog of check_duplicate grows to at most MaxListing attachments.
MaxListing == 2
\* update_metadata is called at most MaxUpdates times on the item.
MaxUpdates == 2

\* --------------------------------------------------------------- variables

VARIABLES
    \* RateLimitHandler / ZoteroClient (zotero_utils.py)
    now,                \* time.time(), in seconds
    backoff_until,      \* RateLimitHandler.backoff_until
    retry_after_until,  \* RateLimitHandler.retry_after_until
    op,                 \* the client operation in progress, or "none"
    idx,                \* position in the operation's plan of catalog calls
    wst,                \* _handle_request: "none", "loop", "returned", "raised", "exhausted"
    retry_count,        \* _handle_request: retry_count
    calls,              \* invocations of func in the current _handle_request call
    lastKind,           \* class of the last response the wrapper received
    sentWrapped,        \* whether the last catalog request was sent by _handle_request
    earlyBy,            \* seconds by which the last catalog request was sent before raDue
    raDue,              \* handling time + n of the last handled Retry-After: n
                        \* not yet followed by a request (0: none)
    hintDue,            \* latest wait-until time named by the headers of the last
                        \* response of the current _handle_request call (0: none)
    retryEarlyBy,       \* seconds by which the last retry was sent before hintDue
    \* the catalog and ZoteroMetadataUpdater.process_pdf (updater.py)
    parents,            \* the catalog's parent items, by key 1..Len:
                        \* [written, accessDate]
    attachments,        \* the catalog's attachment items, in listing order:
                        \* [md5, parentItem] (parentItem 0: none)
    ppc,                \* process_pdf: the step to run next, "idle" or "done"
    pdf,                \* process_pdf: the file, [hash, name]
    parent_key,         \* process_pdf: parent_key (0: not assigned yet)
    outcome,            \* process_pdf: how the last call ended, [kind, exc, at]
    runs,               \* process_pdf calls made so far
    plog,               \* the steps of the current call that have succeeded
    succeeded,          \* hashes of the PDFs for which process_pdf has returned
    hadSucceeded,       \* whether pdf.hash was in succeeded when the call began
    startSizes,         \* <<Len(parents), Len(attachments)>> when the call began
    hashInCatalog,      \* whether the listing of the duplicate check held an
                        \* attachment with the file's hash
    dupFound,           \* whether the duplicate check raised
    pSentWrapped,       \* whether every catalog request of process_pdf so far
                        \* was sent by ZoteroClient._handle_request
    extracted,          \* process_pdf: where each key of the dict returned by
                        \* extract_metadata came from ("absent": no such key)
    metadata,           \* process_pdf: the same for the dict metadata, and
                        \* whether the filename's values have been merged in
    \* main (main.py)
    env_ok,             \* whether the four required environment variables are set
    rules_ok,           \* whether rules.txt exists
    single,             \* whether an item id was given on the command line
    mpc,                \* main: "start", "construct", "fetch", "loop", "single", "over"
    nitems,             \* main: len(items) of the batch
    results,            \* how check_and_update_metadata ended for each item begun
    exit_code,          \* the exit status of the run, "none" while it runs
    temp_files,         \* files made by download_pdf that are still on disk
    \* MetadataExtractor.extract_metadata (metadata.py)
    reply,              \* what the generation call does: [gen, json, data, usage]
    epc,                \* extract_metadata: "ready" or "done"
    eresult,            \* extract_metadata: [kind, exc, data]
    total_input_tokens, \* MetadataExtractor.total_input_tokens
    total_output_tokens,\* MetadataExtractor.total_output_tokens
    formatted,          \* what _format_metadata_for_zotero returned for eresult.data
    \* the life of a MetadataExtractor (metadata.py)
    files,              \* the required files that exist in the working directory
    llm_type,           \* the llm_type argument of the constructor
    ctor,               \* the constructor: [state, exc, provider, missing]
    ncalls,             \* extract_metadata calls made so far
    made,               \* the usages of the generation calls that returned, in order
    cost_report,        \* what calculate_cost returned, if called since the last
                        \* extract_metadata call
    \* ZoteroMetadataUpdater.check_and_update_metadata (updater.py)
    item,               \* the item passed: [title, abstractNote, itemType]
    force_update,       \* the force_update argument of the current call
    rpc,                \* the step to run next, "idle" or "done"
    rresult,            \* how the last call ended: "none", "False", "True", "raised"
    requests,           \* catalog requests sent by the current call
    gens,               \* generation calls made by the current call
    temp_dir,           \* whether the call's temporary directory exists
    refreshes,          \* calls made so far
    rstart,             \* the item and the token totals when the call began,
                        \* and how the call before it ended
    \* ZoteroClient.check_duplicate (zotero_utils.py)
    duplicate_cache,    \* ZoteroClient.duplicate_cache, by hash: -1 no entry,
                        \* 0 None, else the cached parent key
    checks,             \* check_duplicate calls made so far
    dlast,              \* the last call: [hash, result, requests, loaded, repeat]
    firstId,            \* by hash: the first parent key a call returned (0: none)
    awaited,            \* by hash: whether the last call that returned found no
                        \* duplicate (neg), and the parent of the first attachment
                        \* with a parent added since then (added, 0: none)
    \* ZoteroClient.update_metadata (zotero_utils.py)
    stored,             \* the data of the item in the catalog, by key
    ufields,            \* the metadata argument of the call, by key
    ufetched,           \* the data the call fetched
    ulocal,             \* item['data'] held by the call
    upc,                \* "idle", "fetched", "done" or "raised"
    updates,            \* update_metadata calls begun so far
    \* MetadataExtractor._extract_json_from_text (metadata.py)
    text,               \* the argument, a sequence of characters
    jpc,                \* "ready" or "done"
    jresult             \* how the call ended: [kind, exc, str]

wvars == <<now, backoff_until, retry_after_until, op, idx, wst, retry_count,
           calls, lastKind, sentWrapped, earlyBy, raDue, hintDue, retryEarlyBy>>

pvars == <<parents, attachments, ppc, pdf, parent_key, outcome, runs, plog,
           succeeded, hadSucceeded, startSizes, hashInCatalog, dupFound,
           pSentWrapped, extracted, metadata>>

mvars == <<env_ok, rules_ok, single, mpc, nitems, results, exit_code,
           temp_files>>

evars == <<reply, epc, eresult, total_input_tokens, total_output_tokens,
           formatted>>

xvars == <<files, llm_type, ctor, ncalls, made, cost_report>>

jvars == <<text, jpc, jresult>>

rvars == <<item, force_update, rpc, rresult, requests, gens, temp_dir,
           refreshes, rstart>>

dvars == <<duplicate_cache, checks, dlast, firstId, awaited>>

uvars == <<stored, ufields, ufetched, ulocal, upc, updates>>

vars == <<wvars, pvars, mvars, evars, xvars, jvars, rvars, dvars, uvars>>

\* What the actions of each machine leave unchanged.
notW == <<pvars, mvars, evars, xvars, jvars, rvars, dvars, uvars>>

notP == <<wvars, mvars, evars, xvars, jvars, rvars, dvars, uvars>>

notM == <<wvars, pvars, evars, xvars, jvars, rvars, dvars, uvars>>

notE == <<wvars, pvars, mvars, xvars, jvars, rvars, dvars, uvars>>

notX == <<wvars, pvars, mvars, jvars, rvars, dvars, uvars>>

notJ == <<wvars, pvars, mvars, evars, xvars, rvars, dvars, uvars>>

\* The refresh calls the extractor: it leaves the other machines unchanged.
notR == <<wvars, pvars, mvars, xvars, jvars, dvars, uvars>>

\* The state of process_pdf, without the catalog.
pcall == <<ppc, pdf, parent_key, outcome, runs, plog, succeeded, hadSucceeded,
           startSizes, hashInCatalog, dupFound, pSentWrapped, extracted,
           metadata>>

\* check_duplicate reads the catalog, which grows between its calls.
notD == <<wvars, pcall, mvars, evars, xvars, jvars, rvars, uvars>>

notU == <<wvars, pvars, mvars, evars, xvars, jvars, rvars, dvars>>

\* ------------------------------------------------------ RateLimitHandler

Max2(a, b) == IF a >= b THEN a ELSE b

HeaderNames == {"Backoff", "Retry-After"}

\* The rate-limit headers of a response: each present or not, with its seconds.
HeaderSets == UNION {[S -> 1..MaxHint] : S \in SUBSET HeaderNames}

NoHeaders == CHOOSE h \in HeaderSets : DOMAIN h = {}

\* handle_response_headers at time t: the new backoff_until.
handle_backoff(headers, t) ==
    IF "Backoff" \in DOMAIN headers THEN t + headers["Backoff"] ELSE backoff_until

\* handle_response_headers at time t: the new retry_after_until.
handle_retry_after(headers, t) ==
    IF "Retry-After" \in DOMAIN headers
    THEN t + headers["Retry-After"]
    ELSE retry_after_until

\* should_wait at time t.
should_wait(t) == Max2(Max2(backoff_until - t, retry_after_until - t), 0)

\* wait_if_needed never sleeps.
wait_never(t) == t

\* The time at which wait_if_needed, entered at time t, returns.
wait_if_needed(t) == IF should_wait(t) > 0 THEN t + should_wait(t) ELSE t

\* ------------------------------------------------- ZoteroClient: responses

\* The seconds between a request being sent and its outcome being dealt with.
Latency == {0, 1}

\* What a catalog call produces: a returned value (kind "ok"; attr says whether
\* it has a 'headers' attribute) or a raised exception (kind "err"; attr says
\* whether it has a 'response' attribute, isNone whether that attribute is None,
\* and otherwise status and headers are that response's).
Responses ==
    {r \in [kind : {"ok", "err"}, attr : BOOLEAN, isNone : BOOLEAN,
            status : {200, 429, 500}, headers : HeaderSets] :
        /\ (r.kind = "ok") => (r.status = 200 /\ ~r.isNone)
        /\ (r.kind = "err") => (r.status # 200)
        /\ r.isNone => r.attr
        /\ (~r.attr \/ r.isNone) => (r.headers = NoHeaders /\ r.status \in {200, 500})}

max_retries == 3

\* Mutant of LoopGuard: one iteration too many.
LoopGuardOffByOne == retry_count <= max_retries

\* The loop condition of _handle_request.
LoopGuard == retry_count < max_retries

\* except-branch of _handle_request: the exception is a throttling rejection.
Is429(r) == r.kind = "err" /\ r.attr /\ ~r.isNone /\ r.status = 429

\* except-branch of _handle_request: the exception's response carries Backoff.
IsBackoffError(r) ==
    /\ r.kind = "err" /\ r.attr /\ ~r.isNone
    /\ r.status # 429
    /\ "Backoff" \in DOMAIN r.headers

\* Mutant of Retried: only throttling rejections are retried.
RetriedOnly429(r) == Is429(r)

\* The exceptions after which _handle_request retries.
Retried(r) == Is429(r) \/ IsBackoffError(r)

\* Mutant of HeadersHandled: the headers of every failed call are handled too.
HeadersHandledOnEveryError(r) ==
    (r.kind = "ok" /\ r.attr) \/ (r.kind = "err" /\ r.attr /\ ~r.isNone)

\* Whether _handle_request passes the response's headers to the rate limiter.
HeadersHandled(r) == (r.kind = "ok" /\ r.attr) \/ Retried(r)

\* The class of a response, kept for the record of the last one: a returned
\* value with or without a Backoff header, a 429 rejection, another error whose
\* response carries Backoff, an error whose 'response' is None (reading its
\* status_code raises AttributeError in the handler), any other error.
KindOf(r) ==
    IF r.kind = "ok"
    THEN (IF r.attr /\ "Backoff" \in DOMAIN r.headers THEN "okBackoff" ELSE "ok")
    ELSE IF r.attr /\ r.isNone THEN "errNone"
    ELSE IF r.attr /\ r.status = 429 THEN "err429"
    ELSE IF r.attr /\ "Backoff" \in DOMAIN r.headers THEN "errBackoff"
    ELSE "errOther"

\* The latest wait-until time the headers name when handled at time t (0: none).
HintDue(headers, t) ==
    Max2(IF "Backoff" \in DOMAIN headers THEN t + headers["Backoff"] ELSE 0,
         IF "Retry-After" \in DOMAIN headers THEN t + headers["Retry-After"] ELSE 0)

\* ----------------------------------------------- ZoteroClient: operations

\* The catalog calls of each client operation, in order; w says whether the call
\* is made by _handle_request.  item_template (create_item, attach_pdf) fetches
\* no library data and is not listed.  check_duplicate is listed for a hash that
\* is not in duplicate_cache.
Plan(o) ==
    CASE o = "check_duplicate" ->
            <<[f |-> "attachments", w |-> FALSE], [f |-> "everything", w |-> TRUE]>>
      [] o = "create_item" ->
            <<[f |-> "create_items", w |-> TRUE], [f |-> "item", w |-> TRUE]>>
      [] o = "attach_pdf" -> <<[f |-> "upload_attachment", w |-> TRUE]>>
      [] o = "update_metadata" ->
            <<[f |-> "item", w |-> TRUE], [f |-> "update_item", w |-> TRUE]>>
      [] o = "children" -> <<[f |-> "children", w |-> TRUE]>>
      [] o = "dump" -> <<[f |-> "dump", w |-> TRUE]>>
      [] o = "get_all_items" ->
            <<[f |-> "items", w |-> TRUE], [f |-> "everything", w |-> TRUE]>>

ClientOps == {"check_duplicate", "create_item", "attach_pdf", "update_metadata",
              "children", "dump", "get_all_items"}

\* The call the operation in progress is at.
Step == Plan(op)[idx]

WInit ==
    /\ now = 0
    /\ backoff_until = 0
    /\ retry_after_until = 0
    /\ op = "none"
    /\ idx = 1
    /\ wst = "none"
    /\ retry_count = 0
    /\ calls = 0
    /\ lastKind = "none"
    /\ sentWrapped = TRUE
    /\ earlyBy = 0
    /\ raDue = 0
    /\ hintDue = 0
    /\ retryEarlyBy = 0

\* A caller invokes an operation of the client.
StartOp ==
    /\ op = "none"
    /\ now < MaxTime
    /\ \E o \in ClientOps : op' = o
    /\ idx' = 1
    /\ wst' = "none"
    /\ UNCHANGED <<now, backoff_until, retry_after_until, retry_count, calls,
                   lastKind, sentWrapped, earlyBy, raDue, hintDue, retryEarlyBy>>
    /\ UNCHANGED notW

\* Time passes between two operations.
Tick ==
    /\ op = "none"
    /\ now < MaxTime
    /\ now' = now + 1
    /\ UNCHANGED <<backoff_until, retry_after_until, op, idx, wst, retry_count,
                   calls, lastKind, sentWrapped, earlyBy, raDue, hintDue, retryEarlyBy>>
    /\ UNCHANGED notW

\* The operation moves past its current call, or returns after its last one.
Advance ==
    IF idx < Len(Plan(op))
    THEN idx' = idx + 1 /\ op' = op
    ELSE idx' = 1 /\ op' = "none"

\* A catalog call made outside _handle_request (an argument evaluated before the
\* wrapper is entered): sent at once; an exception leaves the operation.
DirectRequest ==
    /\ op # "none"
    /\ wst = "none"
    /\ ~Step.w
    /\ \E ok \in BOOLEAN, d \in Latency :
        /\ sentWrapped' = FALSE
        /\ earlyBy' = Max2(raDue - now, 0)
        /\ raDue' = 0
        /\ now' = now + d
        /\ IF ok THEN Advance ELSE (op' = "none" /\ idx' = 1)
    /\ UNCHANGED <<backoff_until, retry_after_until, wst, retry_count, calls,
                   lastKind, hintDue, retryEarlyBy>>
    /\ UNCHANGED notW

\* _handle_request is entered: max_retries = 3, retry_count = 0.
WrapperEnter ==
    /\ op # "none"
    /\ wst = "none"
    /\ Step.w
    /\ wst' = "loop"
    /\ retry_count' = 0
    /\ calls' = 0
    /\ hintDue' = 0
    /\ retryEarlyBy' = 0
    /\ UNCHANGED <<now, backoff_until, retry_after_until, op, idx, lastKind,
                   sentWrapped, earlyBy, raDue>>
    /\ UNCHANGED notW

\* One iteration of the while loop: wait_if_needed, func, then the response or
\* the exception is dealt with.
WrapperAttempt ==
    /\ wst = "loop"
    /\ LoopGuard
    /\ \E r \in Responses, d \in Latency :
        LET sent == wait_if_needed(now)
            t == sent + d
        IN  /\ sentWrapped' = TRUE
            /\ earlyBy' = Max2(raDue - sent, 0)
            /\ retryEarlyBy' = Max2(hintDue - sent, 0)
            /\ calls' = calls + 1
            /\ now' = t
            /\ lastKind' = KindOf(r)
            /\ IF HeadersHandled(r)
               THEN /\ backoff_until' = handle_backoff(r.headers, t)
                    /\ retry_after_until' = handle_retry_after(r.headers, t)
                    /\ raDue' = IF "Retry-After" \in DOMAIN r.headers
                                THEN t + r.headers["Retry-After"]
                                ELSE 0
                    /\ hintDue' = HintDue(r.headers, t)
               ELSE /\ UNCHANGED <<backoff_until, retry_after_until>>
                    /\ raDue' = 0
                    /\ hintDue' = 0
            /\ IF r.kind = "ok"
               THEN wst' = "returned" /\ retry_count' = retry_count
               ELSE IF Retried(r)
               THEN wst' = "loop" /\ retry_count' = retry_count + 1
               ELSE wst' = "raised" /\ retry_count' = retry_count
    /\ UNCHANGED <<op, idx>>
    /\ UNCHANGED notW

\* The loop has ended without a response: the terminal error is raised.
WrapperExhausted ==
    /\ wst = "loop"
    /\ ~LoopGuard
    /\ wst' = "exhausted"
    /\ UNCHANGED <<now, backoff_until, retry_after_until, op, idx, retry_count,
                   calls, lastKind, sentWrapped, earlyBy, raDue, hintDue, retryEarlyBy>>
    /\ UNCHANGED notW

\* _handle_request returned: the operation goes on with the response.
OpReturn ==
    /\ wst = "returned"
    /\ wst' = "none"
    /\ Advance
    /\ UNCHANGED <<now, backoff_until, retry_after_until, retry_count, calls,
                   lastKind, sentWrapped, earlyBy, raDue, hintDue, retryEarlyBy>>
    /\ UNCHANGED notW

\* _handle_request raised: no client operation catches, the operation ends.
OpRaise ==
    /\ wst \in {"raised", "exhausted"}
    /\ wst' = "none"
    /\ op' = "none"
    /\ idx' = 1
    /\ UNCHANGED <<now, backoff_until, retry_after_until, retry_count, calls,
                   lastKind, sentWrapped, earlyBy, raDue, hintDue, retryEarlyBy>>
    /\ UNCHANGED notW

WNext ==
    \/ StartOp
    \/ Tick
    \/ DirectRequest
    \/ WrapperEnter
    \/ WrapperAttempt
    \/ WrapperExhausted
    \/ OpReturn
    \/ OpRaise

\* --------------------------------------- ZoteroMetadataUpdater.process_pdf

\* Content hashes (calculate_file_hash) and file names of the PDFs submitted.
Hashes == {"h1", "h2"}

Names == {"CamScanner 12-03-2024 10.30_hnOCR.pdf", "report.pdf"}

\* extract_metadata_from_filename(name) is not None: the name matches the
\* CamScanner pattern and its date parses.
FilenameHasMetadata(name) == name = "CamScanner 12-03-2024 10.30_hnOCR.pdf"

\* The keys that extract_metadata_from_filename returns.
FilenameKeys == {"accessDate", "extra"}

\* A dict over these keys, by the origin of each value.
NoMetadata == [accessDate |-> "absent", extra |-> "absent", merged |-> FALSE]

\* What extract_metadata may return for these keys: the model gave the key or
\* not.
ModelMetadata ==
    [accessDate : {"absent", "model"}, extra : {"absent", "model"},
     merged : {FALSE}]

\* filename_metadata = extract_metadata_from_filename(...);
\* if filename_metadata: metadata.update(filename_metadata)
MergeFilename(m, name) ==
    IF FilenameHasMetadata(name)
    THEN [accessDate |-> "filename", extra |-> "filename", merged |-> TRUE]
    ELSE [m EXCEPT !.merged = TRUE]

\* The md5 of an attachment made from item_template('attachment'): process_pdf
\* sets itemType, contentType, filename, parentItem and collections on the
\* template, never md5, and uploads no file.
TemplateMd5 == "null"

\* Mutant of StepAfter: the parent item is created before the duplicate check.
StepAfterCreateFirst(s) ==
    CASE s = "hash" -> "create_parent"
      [] s = "create_parent" -> "dupcheck"
      [] s = "dupcheck" -> "get_parent"
      [] s = "get_parent" -> "create_attachment"
      [] s = "create_attachment" -> "text"
      [] s = "text" -> "metadata"
      [] s = "metadata" -> "write"
      [] s = "write" -> "done"

\* The step of process_pdf that follows step s, in the order of the code.
StepAfter(s) ==
    CASE s = "hash" -> "dupcheck"
      [] s = "dupcheck" -> "create_parent"
      [] s = "create_parent" -> "get_parent"
      [] s = "get_parent" -> "create_attachment"
      [] s = "create_attachment" -> "text"
      [] s = "text" -> "metadata"
      [] s = "metadata" -> "write"
      [] s = "write" -> "done"

\* The duplicate loop of process_pdf over listing atts: an attachment with the
\* file's md5 and a parent raises.
IsDuplicate(atts, h) ==
    \E i \in 1..Len(atts) : atts[i].md5 = h /\ atts[i].parentItem # 0

NoOutcome == [kind |-> "none", exc |-> "none", at |-> "none"]

Returned == [kind |-> "return", exc |-> "none", at |-> "write"]

\* raise ValueError("Ce PDF existe deja dans Zotero ...") of the duplicate loop.
DuplicateRaise == [kind |-> "raise", exc |-> "ValueError: exists", at |-> "dupcheck"]

\* The exception a failing step lets through.
Failure(s) ==
    [kind |-> "raise",
     exc |-> CASE s = "hash" -> "OSError"
               [] s = "text" -> "TextError"
               [] s = "metadata" -> "ValueError: extraction"
               [] OTHER -> "HTTPError",
     at |-> s]

\* Catalogs before the first call: attachments with a file md5, with the parent
\* item 1 or with none; item 1 exists when an attachment names it.
InitAttachments ==
    UNION {[1..n -> [md5 : Hashes, parentItem : {0, 1}]] : n \in 0..MaxInitAtt}

PInit ==
    /\ attachments \in InitAttachments
    /\ parents = IF \E i \in 1..Len(attachments) : attachments[i].parentItem = 1
                 THEN <<[written |-> TRUE, accessDate |-> "absent"]>>
                 ELSE <<>>
    /\ ppc = "idle"
    /\ pdf = [hash |-> "h1", name |-> "report.pdf"]
    /\ parent_key = 0
    /\ outcome = NoOutcome
    /\ runs = 0
    /\ plog = <<>>
    /\ succeeded = {}
    /\ hadSucceeded = FALSE
    /\ startSizes = <<Len(parents), Len(attachments)>>
    /\ hashInCatalog = FALSE
    /\ dupFound = FALSE
    /\ pSentWrapped = TRUE
    /\ extracted = NoMetadata
    /\ metadata = NoMetadata

\* The state of the catalog machine in the specifications of the other machines.
PIdle == PInit /\ attachments = <<>>

\* process_pdf(pdf_path) is called.
PStart ==
    /\ ppc \in {"idle", "done"}
    /\ runs < MaxRuns
    /\ runs' = runs + 1
    /\ \E h \in Hashes, n \in Names : pdf' = [hash |-> h, name |-> n]
    /\ ppc' = "hash"
    /\ parent_key' = 0
    /\ outcome' = NoOutcome
    /\ plog' = <<>>
    /\ hadSucceeded' = (pdf'.hash \in succeeded)
    /\ startSizes' = <<Len(parents), Len(attachments)>>
    /\ hashInCatalog' = FALSE
    /\ dupFound' = FALSE
    /\ extracted' = NoMetadata
    /\ metadata' = NoMetadata
    /\ UNCHANGED <<parents, attachments, succeeded, pSentWrapped>>
    /\ UNCHANGED notP

\* The current step succeeds: the call goes on with the next one.
Proceed ==
    /\ plog' = Append(plog, ppc)
    /\ ppc' = StepAfter(ppc)

\* The current step raises: process_pdf catches nothing, the call ends.
Raise(o) ==
    /\ outcome' = o
    /\ ppc' = "done"
    /\ plog' = plog

\* What a failing step leaves of a catalog listing that held n entries when the
\* call began, were the call to undo what it created.
RolledBack(listing, n) == SubSeq(listing, 1, n)

\* What a failing step leaves of a catalog listing that held n entries when the
\* call began: all of it, process_pdf has no except or finally clause.
KeptOnFailure(listing, n) == listing

\* Step s, which follows the creation of the parent item, raises.
FailAfterParent(s) ==
    /\ Raise(Failure(s))
    /\ parents' = KeptOnFailure(parents, startSizes[1])
    /\ attachments' = KeptOnFailure(attachments, startSizes[2])

\* file_hash = calculate_file_hash(pdf_path)
PHash ==
    /\ ppc = "hash"
    /\ \E ok \in BOOLEAN :
        IF ok THEN Proceed /\ outcome' = outcome ELSE Raise(Failure("hash"))
    /\ UNCHANGED <<parents, attachments, pdf, parent_key, runs, succeeded,
                   hadSucceeded, startSizes, hashInCatalog, dupFound, pSentWrapped>>
    /\ UNCHANGED <<extracted, metadata>>
    /\ UNCHANGED notP

\* for item in self.zot.items(itemType='attachment'): ... raise ValueError
PDupCheck ==
    /\ ppc = "dupcheck"
    /\ pSentWrapped' = FALSE
    /\ \E ok \in BOOLEAN :
        IF ~ok
        THEN Raise(Failure("dupcheck")) /\ UNCHANGED <<hashInCatalog, dupFound>>
        ELSE /\ hashInCatalog' =
                    (\E i \in 1..Len(attachments) : attachments[i].md5 = pdf.hash)
             /\ dupFound' = IsDuplicate(attachments, pdf.hash)
             /\ IF IsDuplicate(attachments, pdf.hash)
                THEN Raise(DuplicateRaise)
                ELSE Proceed /\ outcome' = outcome
    /\ UNCHANGED <<parents, attachments, pdf, parent_key, runs, succeeded,
                   hadSucceeded, startSizes>>
    /\ UNCHANGED <<extracted, metadata>>
    /\ UNCHANGED notP

\* parent_result = self.zot.create_items([parent_template]); parent_key = ...
PCreateParent ==
    /\ ppc = "create_parent"
    /\ pSentWrapped' = FALSE
    /\ \E ok \in BOOLEAN :
        IF ok
        THEN /\ parents' = Append(parents, [written |-> FALSE, accessDate |-> "absent"])
             /\ parent_key' = Len(parents) + 1
             /\ Proceed /\ outcome' = outcome
        ELSE Raise(Failure("create_parent")) /\ UNCHANGED <<parents, parent_key>>
    /\ UNCHANGED <<attachments, pdf, runs, succeeded, hadSucceeded, startSizes,
                   hashInCatalog, dupFound>>
    /\ UNCHANGED <<extracted, metadata>>
    /\ UNCHANGED notP

\* parent_item = self.zot.item(parent_key)
PGetParent ==
    /\ ppc = "get_parent"
    /\ pSentWrapped' = FALSE
    /\ \E ok \in BOOLEAN :
        IF ok
        THEN Proceed /\ outcome' = outcome /\ UNCHANGED <<parents, attachments>>
        ELSE FailAfterParent("get_parent")
    /\ UNCHANGED <<pdf, parent_key, runs, succeeded,
                   hadSucceeded, startSizes, hashInCatalog, dupFound>>
    /\ UNCHANGED <<extracted, metadata>>
    /\ UNCHANGED notP

\* self.zot.create_items([attachment_template], parent_key)
PCreateAttachment ==
    /\ ppc = "create_attachment"
    /\ pSentWrapped' = FALSE
    /\ \E ok \in BOOLEAN :
        IF ok
        THEN /\ attachments' = Append(attachments,
                    [md5 |-> TemplateMd5, parentItem |-> parent_key])
             /\ Proceed /\ outcome' = outcome /\ UNCHANGED parents
        ELSE FailAfterParent("create_attachment")
    /\ UNCHANGED <<pdf, parent_key, runs, succeeded, hadSucceeded,
                   startSizes, hashInCatalog, dupFound>>
    /\ UNCHANGED <<extracted, metadata>>
    /\ UNCHANGED notP

\* text = ... (doc_converter.convert or fitz)
PText ==
    /\ ppc = "text"
    /\ \E ok \in BOOLEAN :
        IF ok
        THEN Proceed /\ outcome' = outcome /\ UNCHANGED <<parents, attachments>>
        ELSE FailAfterParent("text")
    /\ UNCHANGED <<pdf, parent_key, runs, succeeded,
                   hadSucceeded, startSizes, hashInCatalog, dupFound, pSentWrapped>>
    /\ UNCHANGED <<extracted, metadata>>
    /\ UNCHANGED notP

\* metadata = self.metadata.extract_metadata(text)
PMetadata ==
    /\ ppc = "metadata"
    /\ \E ok \in BOOLEAN :
        IF ok
        THEN /\ \E m \in ModelMetadata : extracted' = m /\ metadata' = m
             /\ Proceed /\ outcome' = outcome /\ UNCHANGED <<parents, attachments>>
        ELSE FailAfterParent("metadata") /\ UNCHANGED <<extracted, metadata>>
    /\ UNCHANGED <<pdf, parent_key, runs, succeeded,
                   hadSucceeded, startSizes, hashInCatalog, dupFound, pSentWrapped>>
    /\ UNCHANGED notP

\* metadata.update(filename_metadata); parent_item['data'].update(...) with the
\* formatted metadata, of which accessDate is a simple field;
\* self.zot.update_item(parent_item); return
PWrite ==
    /\ ppc = "write"
    /\ pSentWrapped' = FALSE
    /\ metadata' = MergeFilename(metadata, pdf.name)
    /\ UNCHANGED extracted
    /\ \E ok \in BOOLEAN :
        IF ok
        THEN /\ parents' = [parents EXCEPT ![parent_key] =
                    [written |-> TRUE,
                     accessDate |-> MergeFilename(metadata, pdf.name).accessDate]]
             /\ succeeded' = succeeded \cup {pdf.hash}
             /\ Proceed /\ outcome' = Returned /\ UNCHANGED attachments
        ELSE FailAfterParent("write") /\ UNCHANGED succeeded
    /\ UNCHANGED <<pdf, parent_key, runs, hadSucceeded, startSizes,
                   hashInCatalog, dupFound>>
    /\ UNCHANGED notP

PNext ==
    \/ PStart
    \/ PHash
    \/ PDupCheck
    \/ PCreateParent
    \/ PGetParent
    \/ PCreateAttachment
    \/ PText
    \/ PMetadata
    \/ PWrite

\* -------------------------------------------------------------- main.py

\* How check_and_update_metadata(item, force_update=True) of main.py goes for an
\* item: the step that raises, "nopdf" (return False) or "updated" (return True).
Fates == {"fail_children", "nopdf", "fail_download", "fail_text", "fail_llm",
          "fail_eval", "fail_update", "updated"}

\* In the batch loop the item's title is printed first: KeyError without one.
BatchFates == Fates \cup {"fail_title"}

\* The fates in which extract_metadata_with_llm is reached: it raises
\* FileNotFoundError first when rules.txt does not exist.
ReachesRules == {"fail_llm", "fail_eval", "fail_update", "updated"}

\* How check_and_update_metadata ends for an item of fate f.
ItemResult(f) == IF f \in ReachesRules /\ ~rules_ok THEN "fail_rules" ELSE f

\* The fates in which download_pdf has made its file: NamedTemporaryFile(
\* delete=False) comes before the download, and nothing removes the file.
MakesTempFile == {"fail_download", "fail_text"} \cup ReachesRules

\* Whether that end is an exception.
ItemRaises(f) == ItemResult(f) \notin {"nopdf", "updated"}

MInit ==
    /\ env_ok \in BOOLEAN
    /\ rules_ok \in BOOLEAN
    /\ single \in BOOLEAN
    /\ mpc = "start"
    /\ nitems = 0
    /\ results = <<>>
    /\ exit_code = "none"
    /\ temp_files = 0

\* The state of main in the specifications of the other machines.
MIdle ==
    /\ env_ok = TRUE
    /\ rules_ok = TRUE
    /\ single = FALSE
    /\ mpc = "start"
    /\ nitems = 0
    /\ results = <<>>
    /\ exit_code = "none"
    /\ temp_files = 0

\* missing_vars: raise ValueError, outside the try block.
MCheckEnv ==
    /\ mpc = "start"
    /\ IF env_ok
       THEN mpc' = "construct" /\ exit_code' = exit_code
       ELSE mpc' = "over" /\ exit_code' = "1"
    /\ UNCHANGED <<env_ok, rules_ok, single, nitems, results>>
    /\ UNCHANGED temp_files
    /\ UNCHANGED notM

\* updater = ZoteroMetadataUpdater(...); an exception goes to the outer except.
MConstruct ==
    /\ mpc = "construct"
    /\ \E ok \in BOOLEAN :
        IF ok
        THEN mpc' = (IF single THEN "single" ELSE "fetch") /\ exit_code' = exit_code
        ELSE mpc' = "over" /\ exit_code' = "1"
    /\ UNCHANGED <<env_ok, rules_ok, single, nitems, results>>
    /\ UNCHANGED temp_files
    /\ UNCHANGED notM

\* if args.item_id: the item is fetched and refreshed inside its own try block,
\* whose except exits with status 1; then the cost statistics are printed.
MSingle ==
    /\ mpc = "single"
    /\ \E ok \in BOOLEAN, f \in Fates :
        IF ~ok
        THEN results' = results /\ exit_code' = "1" /\ temp_files' = temp_files
        ELSE /\ results' = Append(results, ItemResult(f))
             /\ exit_code' = IF ItemRaises(f) THEN "1" ELSE "0"
             /\ temp_files' = temp_files + (IF f \in MakesTempFile THEN 1 ELSE 0)
    /\ mpc' = "over"
    /\ UNCHANGED <<env_ok, rules_ok, single, nitems>>
    /\ UNCHANGED notM

\* items = updater.get_relevant_items(valid_types)
MFetch ==
    /\ mpc = "fetch"
    /\ \E ok \in BOOLEAN, n \in 0..MaxItems :
        IF ok
        THEN mpc' = "loop" /\ nitems' = n /\ exit_code' = exit_code
        ELSE mpc' = "over" /\ nitems' = nitems /\ exit_code' = "1"
    /\ UNCHANGED <<env_ok, rules_ok, single, results>>
    /\ UNCHANGED temp_files
    /\ UNCHANGED notM

\* One iteration of 'for item in items': the loop body has no try block, so an
\* exception of check_and_update_metadata goes to the outer except: sys.exit(1).
MItem ==
    /\ mpc = "loop"
    /\ Len(results) < nitems
    /\ \E f \in BatchFates :
        /\ results' = Append(results, ItemResult(f))
        /\ temp_files' = temp_files + (IF f \in MakesTempFile THEN 1 ELSE 0)
        /\ IF ItemRaises(f)
           THEN mpc' = "over" /\ exit_code' = "1"
           ELSE mpc' = mpc /\ exit_code' = exit_code
    /\ UNCHANGED <<env_ok, rules_ok, single, nitems>>
    /\ UNCHANGED notM

\* The loop is over: the cost statistics are printed and main returns.
MReport ==
    /\ mpc = "loop"
    /\ Len(results) = nitems
    /\ mpc' = "over"
    /\ exit_code' = "0"
    /\ UNCHANGED <<env_ok, rules_ok, single, nitems, results>>
    /\ UNCHANGED temp_files
    /\ UNCHANGED notM

MNext ==
    \/ MCheckEnv
    \/ MConstruct
    \/ MSingle
    \/ MFetch
    \/ MItem
    \/ MReport

\* --------------------------------------- MetadataExtractor.extract_metadata

\* JSON null, and the sample string of each of an author's fields.
AuthorValues ==
    [lastName |-> {"null", "Dupont"}, firstName |-> {"null", "Jean"},
     denomination |-> {"null", "Le Prefet"}]

\* An entry of 'authors': a dict with its three fields (a missing key reads as
\* null), or something that is not a dict.
AuthorEntries ==
    [dict : {TRUE}, lastName : AuthorValues.lastName,
     firstName : AuthorValues.firstName,
     denomination : AuthorValues.denomination]
    \cup {[dict |-> FALSE, lastName |-> "null", firstName |-> "null",
           denomination |-> "null"]}

\* The 'authors' key: absent, not a list, or a list of entries.
AuthorsValues ==
    {[kind |-> k, items |-> <<>>] : k \in {"absent", "scalar"}}
    \cup {[kind |-> "list", items |-> a] :
            a \in UNION {[1..n -> AuthorEntries] : n \in 0..MaxAuthors}}

Digits == {"0", "1", "2", "3", "4", "5", "6", "7", "8", "9"}

\* re.match(r'^\d{2}/\d{2}/\d{4}$', d): '$' also matches before a final newline.
DateMatches(d) ==
    /\ Len(d) \in {10, 11}
    /\ \A i \in {1, 2, 4, 5, 7, 8, 9, 10} : d[i] \in Digits
    /\ d[3] = "/" /\ d[6] = "/"
    /\ Len(d) = 11 => d[11] = "\n"

\* The 'date' key: absent, null, a value that is not a string, or a string,
\* given by its characters.
DateValues ==
    {[kind |-> k, chars |-> <<>>] : k \in {"absent", "null", "scalar"}}
    \cup {[kind |-> "str", chars |-> c] :
            c \in {<<"1", "2", "/", "0", "3", "/", "2", "0", "2", "4">>,
                   <<"1", "2", "/", "0", "3", "/", "2", "0", "2", "4", "\n">>,
                   <<"2", "0", "2", "4", "-", "0", "3", "-", "1", "2">>,
                   <<"1", "2", "/", "0", "3", "/", "2", "4">>}}

\* An entry of 'tags': not a dict, a dict without 'tag', a dict whose 'tag' is
\* not a string, or a dict whose 'tag' is a string, given by its characters.
TagEntries ==
    {[kind |-> k, chars |-> <<>>] : k \in {"nodict", "nokey", "nostr"}}
    \cup {[kind |-> "str", chars |-> c] :
            c \in {<<".", "/", "a">>, <<".", "/">>, <<"a", "b", "c">>, <<>>}}

\* The 'tags' key: absent, not a list, or a list of entries.
TagsValues ==
    {[kind |-> k, items |-> <<>>] : k \in {"absent", "scalar"}}
    \cup {[kind |-> "list", items |-> a] :
            a \in UNION {[1..n -> TagEntries] : n \in 0..MaxTags}}

\* The 'title' key: absent, null or a string.
TitleValues == {"absent", "null", "X"}

EmptyPayload ==
    [title |-> "absent",
     authors |-> [kind |-> "absent", items |-> <<>>],
     date |-> [kind |-> "absent", chars |-> <<>>],
     tags |-> [kind |-> "absent", items |-> <<>>]]

\* _validate_output_format, 'authors': a list whose entries are dicts.
AuthorsAccepted(a) ==
    \/ a.kind = "absent"
    \/ a.kind = "list" /\ \A i \in 1..Len(a.items) : a.items[i].dict

\* _validate_output_format, 'date': absent, None or matching DD/MM/YYYY
\* (re.match raises TypeError on a value that is not a string).
DateAccepted(d) ==
    \/ d.kind \in {"absent", "null"}
    \/ d.kind = "str" /\ DateMatches(d.chars)

\* tag_obj['tag'].startswith("./")
StartsWithDotSlash(c) == Len(c) >= 2 /\ c[1] = "." /\ c[2] = "/"

\* 'tags' as TagsAccepted, without the check of the tag's length.
TagsAcceptedAnyLength(t) ==
    \/ t.kind = "absent"
    \/ /\ t.kind = "list"
       /\ \A i \in 1..Len(t.items) :
            /\ t.items[i].kind = "str"
            /\ StartsWithDotSlash(t.items[i].chars)

\* _validate_output_format, 'tags': a list of dicts with a string 'tag' that
\* starts with "./" and is longer than 2.
TagsAccepted(t) ==
    \/ t.kind = "absent"
    \/ /\ t.kind = "list"
       /\ \A i \in 1..Len(t.items) :
            /\ t.items[i].kind = "str"
            /\ StartsWithDotSlash(t.items[i].chars)
            /\ ~(Len(t.items[i].chars) <= 2)

\* _validate_output_format returns without raising.
ValidateOutputFormat(data) ==
    AuthorsAccepted(data.authors) /\ DateAccepted(data.date) /\ TagsAccepted(data.tags)

\* The parsed JSON object, as far as _validate_output_format and
\* _format_metadata_for_zotero read it: every combination of 'authors', 'date'
\* and 'tags' without a title, and every title with every list of authors and
\* each 'date' and 'tags' that the validation accepts.
Payloads ==
    [title : {"absent"}, authors : AuthorsValues, date : DateValues,
     tags : TagsValues]
    \cup [title : TitleValues,
          authors : {a \in AuthorsValues : a.kind = "list"},
          date : {d \in DateValues : DateAccepted(d)},
          tags : {t \in TagsValues : TagsAccepted(t)}]

\* result['usage'] of a generation call.
NoUsage == [input_tokens |-> 0, output_tokens |-> 0]

SampleUsage == [input_tokens |-> 2, output_tokens |-> 1]

\* The reply when the generation call raises.
RaiseReply ==
    [gen |-> "raise", json |-> "none", data |-> EmptyPayload, usage |-> NoUsage]

\* What llm.generate does and what its content holds: gen "raise" (the call
\* fails) or "ok"; json "none" (no brace pair), "bad" (json.loads fails) or "ok"
\* (an object, data); usage, the token counts of the call.
Replies ==
    {RaiseReply,
     [gen |-> "ok", json |-> "none", data |-> EmptyPayload, usage |-> SampleUsage],
     [gen |-> "ok", json |-> "bad", data |-> EmptyPayload, usage |-> SampleUsage]}
    \cup {[gen |-> "ok", json |-> "ok", data |-> d, usage |-> SampleUsage] :
            d \in Payloads}

NoResult == [kind |-> "none", exc |-> "none", data |-> EmptyPayload]

\* extract_metadata on reply r: the metadata returned, or the exception.  When
\* generate raises, the except block reads the unassigned local 'result'.
ExtractResult(r) ==
    IF r.gen = "raise"
    THEN [kind |-> "raised", exc |-> "UnboundLocalError", data |-> EmptyPayload]
    ELSE IF r.json = "ok" /\ ValidateOutputFormat(r.data)
    THEN [kind |-> "returned", exc |-> "none", data |-> r.data]
    ELSE [kind |-> "raised", exc |-> "ValueError", data |-> EmptyPayload]

RequiredFiles == {"rules.txt", "output.txt"}

\* The usage is added only when the metadata is returned.
GenerationValidated(r) ==
    r.gen = "ok" /\ r.json = "ok" /\ ValidateOutputFormat(r.data)

\* Whether lines 75-76 are reached: the generation call has returned.
GenerationReturned(r) == r.gen = "ok"

\* The usage of a call replaces the totals.
AddUsageLast(totals, usage) == <<usage.input_tokens, usage.output_tokens>>

\* total_input_tokens += ...; total_output_tokens += ...
AddUsage(totals, usage) ==
    <<totals[1] + usage.input_tokens, totals[2] + usage.output_tokens>>

\* extract_metadata(text) when the generation call does r: the two files are
\* opened first (FileNotFoundError outside the try block), then the reply is
\* handled and its usage added.
Extract(r) ==
    LET opened == RequiredFiles \subseteq files
        totals == IF opened /\ GenerationReturned(r)
                  THEN AddUsage(<<total_input_tokens, total_output_tokens>>, r.usage)
                  ELSE <<total_input_tokens, total_output_tokens>>
    IN  /\ reply' = r
        /\ epc' = "done"
        /\ eresult' = IF opened
                      THEN ExtractResult(r)
                      ELSE [kind |-> "raised", exc |-> "FileNotFoundError",
                            data |-> EmptyPayload]
        /\ total_input_tokens' = totals[1]
        /\ total_output_tokens' = totals[2]

\* author.get(field) is true: the value is neither None nor empty.
Truthy(v) == v \notin {"null", ""}

\* Every author becomes the creator named 'Unknown Author'.
CreatorUnknown(author) ==
    [creatorType |-> "author", lastName |-> "absent", firstName |-> "absent",
     name |-> "Unknown Author"]

\* _format_metadata_for_zotero: the creator made from an author.
Creator(author) ==
    IF Truthy(author.lastName)
    THEN IF Truthy(author.firstName)
         THEN [creatorType |-> "author", lastName |-> author.lastName,
               firstName |-> author.firstName, name |-> "absent"]
         ELSE [creatorType |-> "author", lastName |-> "absent",
               firstName |-> "absent", name |-> author.lastName]
    ELSE IF Truthy(author.denomination)
    THEN [creatorType |-> "author", lastName |-> "absent",
          firstName |-> "absent", name |-> author.denomination]
    ELSE [creatorType |-> "author", lastName |-> "absent",
          firstName |-> "absent", name |-> "Unknown Author"]

NoFormatted ==
    [title |-> "none", date |-> [kind |-> "none", chars |-> <<>>],
     creators |-> [kind |-> "none", items |-> <<>>],
     tags |-> [kind |-> "none", items |-> <<>>]]

\* _format_metadata_for_zotero(raw_metadata), for the keys of the payload: the
\* simple fields and the tags are copied when present, 'creators' holds one
\* creator per author.
format_metadata_for_zotero(raw_metadata) ==
    [title |-> raw_metadata.title,
     date |-> raw_metadata.date,
     creators |->
        IF raw_metadata.authors.kind = "absent"
        THEN [kind |-> "absent", items |-> <<>>]
        ELSE [kind |-> "list",
              items |-> [i \in 1..Len(raw_metadata.authors.items) |->
                            Creator(raw_metadata.authors.items[i])]],
     tags |-> raw_metadata.tags]

EInit ==
    /\ reply \in Replies
    /\ epc = "ready"
    /\ eresult = NoResult
    /\ total_input_tokens = 0
    /\ total_output_tokens = 0
    /\ formatted = NoFormatted

\* The state of the extractor in the specifications of the other machines.
EIdle ==
    /\ reply = RaiseReply
    /\ epc = "ready"
    /\ eresult = NoResult
    /\ total_input_tokens = 0
    /\ total_output_tokens = 0
    /\ formatted = NoFormatted

\* extract_metadata(text) runs on the reply of the generation call.
ExtractMetadata ==
    /\ epc = "ready"
    /\ Extract(reply)
    /\ UNCHANGED formatted
    /\ UNCHANGED notE

\* The caller formats the metadata returned: _format_metadata_for_zotero.
FormatMetadata ==
    /\ epc = "done"
    /\ eresult.kind = "returned"
    /\ epc' = "formatted"
    /\ formatted' = format_metadata_for_zotero(eresult.data)
    /\ UNCHANGED <<reply, eresult, total_input_tokens, total_output_tokens>>
    /\ UNCHANGED notE

ENext ==
    \/ ExtractMetadata
    \/ FormatMetadata

\* ------------------------------------------- the life of a MetadataExtractor

\* The keys of LLM_CONFIG, and a type that is not one of them.
LLMTypes == {"anthropic", "openrouter", "llama"}

\* LLM_CONFIG[t]['costs'], in hundredths of a dollar per million tokens.
Costs(t) ==
    CASE t = "anthropic" -> [input_tokens |-> 100, output_tokens |-> 500]
      [] t = "openrouter" -> [input_tokens |-> 15, output_tokens |-> 60]
      [] OTHER -> [input_tokens |-> 0, output_tokens |-> 0]

NotConstructed == [state |-> "new", exc |-> "none", provider |-> "none", missing |-> {}]

\* The constructor without the check of the required files.
ConstructResultDeferred(f, t, ok) ==
    IF t \notin LLMTypes
    THEN [state |-> "failed", exc |-> "ValueError", provider |-> "none",
          missing |-> RequiredFiles \ f]
    ELSE IF ~ok
    THEN [state |-> "failed", exc |-> "ProviderError", provider |-> "failed",
          missing |-> RequiredFiles \ f]
    ELSE [state |-> "ready", exc |-> "none", provider |-> "created",
          missing |-> RequiredFiles \ f]

\* MetadataExtractor(llm_type=t) when the files f exist and create_llm_provider
\* succeeds or not (ok): the required files, then the type, then the provider.
ConstructResult(f, t, ok) ==
    IF RequiredFiles \ f # {}
    THEN [state |-> "failed", exc |-> "FileNotFoundError", provider |-> "none",
          missing |-> RequiredFiles \ f]
    ELSE IF t \notin LLMTypes
    THEN [state |-> "failed", exc |-> "ValueError", provider |-> "none",
          missing |-> {}]
    ELSE IF ~ok
    THEN [state |-> "failed", exc |-> "ProviderError", provider |-> "failed",
          missing |-> {}]
    ELSE [state |-> "ready", exc |-> "none", provider |-> "created",
          missing |-> {}]

\* The token counts a generation call may report.
UsageValues ==
    {NoUsage, [input_tokens |-> 1, output_tokens |-> 2],
     [input_tokens |-> 3, output_tokens |-> 1]}

\* A payload that _validate_output_format refuses.
InvalidPayload == [EmptyPayload EXCEPT !.tags.kind = "scalar"]

\* The replies of the generation calls of a run: one of each class, with each
\* usage.
UsageReplies ==
    {RaiseReply}
    \cup {[gen |-> "ok", json |-> j, data |-> EmptyPayload, usage |-> u] :
            j \in {"none", "bad", "ok"}, u \in UsageValues}
    \cup {[gen |-> "ok", json |-> "ok", data |-> InvalidPayload, usage |-> u] :
            u \in UsageValues}

NoReport ==
    [input_tokens |-> -1, output_tokens |-> -1, input_cost |-> -1,
     output_cost |-> -1, total_cost |-> -1]

\* calculate_cost(): Decimal arithmetic is exact here, so the costs are
\* tokens * price / 1000000, held in units of 10^-8 dollar.
calculate_cost(tin, tout, costs) ==
    LET input_cost == tin * costs.input_tokens
        output_cost == tout * costs.output_tokens
    IN  [input_tokens |-> tin, output_tokens |-> tout, input_cost |-> input_cost,
         output_cost |-> output_cost, total_cost |-> input_cost + output_cost]

XInit ==
    /\ files \in SUBSET RequiredFiles
    /\ llm_type \in LLMTypes \cup {"other"}
    /\ ctor = NotConstructed
    /\ ncalls = 0
    /\ made = <<>>
    /\ cost_report = NoReport

\* The state of a constructed extractor, in the specifications of the other
\* machines.
XIdle ==
    /\ files = RequiredFiles
    /\ llm_type = "anthropic"
    /\ ctor = [state |-> "ready", exc |-> "none", provider |-> "created",
               missing |-> {}]
    /\ ncalls = 0
    /\ made = <<>>
    /\ cost_report = NoReport

\* MetadataExtractor(llm_type)
Construct ==
    /\ ctor.state = "new"
    /\ \E ok \in BOOLEAN : ctor' = ConstructResult(files, llm_type, ok)
    /\ UNCHANGED <<files, llm_type, ncalls, made, cost_report>>
    /\ UNCHANGED <<evars, notX>>

\* The operator removes one of the two files between two calls.
RemoveFile ==
    /\ ctor.state = "ready"
    /\ \E f \in files : files' = files \ {f}
    /\ UNCHANGED <<llm_type, ctor, ncalls, made, cost_report>>
    /\ UNCHANGED <<evars, notX>>

\* extract_metadata(text) on the constructed extractor.
ExtractCall ==
    /\ ctor.state = "ready"
    /\ ncalls < MaxCalls
    /\ \E r \in UsageReplies :
        /\ Extract(r)
        /\ made' = IF RequiredFiles \subseteq files /\ r.gen = "ok"
                   THEN Append(made, r.usage)
                   ELSE made
    /\ ncalls' = ncalls + 1
    /\ cost_report' = NoReport
    /\ UNCHANGED <<files, llm_type, ctor, formatted>>
    /\ UNCHANGED notX

\* calculate_cost()
CalculateCost ==
    /\ ctor.state = "ready"
    /\ cost_report' = calculate_cost(total_input_tokens, total_output_tokens,
                                     Costs(llm_type))
    /\ UNCHANGED <<files, llm_type, ctor, ncalls, made>>
    /\ UNCHANGED <<evars, notX>>

XNext ==
    \/ Construct
    \/ RemoveFile
    \/ ExtractCall
    \/ CalculateCost

\* ---------------------- ZoteroMetadataUpdater.check_and_update_metadata

\* The values of the item's title and abstractNote before the first call: empty
\* or set.
Items ==
    [title : {"", "Old"}, abstractNote : {"", "Abstract"},
     itemType : {"document"}]

\* The replies of the generation call during a refresh: it raises, its content
\* holds no JSON, or it holds an object with each kind of title.
RefreshReplies ==
    {RaiseReply,
     [gen |-> "ok", json |-> "none", data |-> EmptyPayload, usage |-> SampleUsage]}
    \cup {[gen |-> "ok", json |-> "ok", data |-> [EmptyPayload EXCEPT !.title = t],
           usage |-> SampleUsage] : t \in TitleValues}

\* The pipeline is skipped only when the item has no title yet.
SkipsUntitled(it, force) == ~force /\ ~Truthy(it.title)

\* Line 219: not force_update and item['data'].get('title') and
\* item['data'].get('abstractNote')
Skips(it, force) == ~force /\ Truthy(it.title) /\ Truthy(it.abstractNote)

\* item['data'].update(formatted_metadata); item['data']['itemType'] = 'report'
UpdatedItem(it, f) ==
    [title |-> IF f.title = "absent" THEN it.title ELSE f.title,
     abstractNote |-> it.abstractNote,
     itemType |-> "report"]

RInit ==
    /\ item \in Items
    /\ force_update = FALSE
    /\ rpc = "idle"
    /\ rresult = "none"
    /\ requests = 0
    /\ gens = 0
    /\ temp_dir = FALSE
    /\ refreshes = 0
    /\ rstart = [item |-> item, tokens |-> <<0, 0>>]

\* The state of this machine in the specifications of the other machines.
RIdle ==
    /\ item = [title |-> "", abstractNote |-> "", itemType |-> "document"]
    /\ force_update = FALSE
    /\ rpc = "idle"
    /\ rresult = "none"
    /\ requests = 0
    /\ gens = 0
    /\ temp_dir = FALSE
    /\ refreshes = 0
    /\ rstart = [item |-> item, tokens |-> <<0, 0>>]

\* The call ends with result res; the with block, if entered, has removed the
\* temporary directory.
REnd(res) ==
    /\ rpc' = "done"
    /\ rresult' = res
    /\ temp_dir' = FALSE

\* check_and_update_metadata(item, force_update) is called: lines 219-221.
RStart ==
    /\ rpc \in {"idle", "done"}
    /\ refreshes < MaxRefreshes
    /\ refreshes' = refreshes + 1
    /\ \E f \in BOOLEAN :
        /\ force_update' = f
        /\ IF Skips(item, f)
           THEN REnd("False")
           ELSE rpc' = "children" /\ rresult' = "none" /\ temp_dir' = temp_dir
    /\ requests' = 0
    /\ gens' = 0
    /\ rstart' = [item |-> item,
                  tokens |-> <<total_input_tokens, total_output_tokens>>,
                  after |-> rresult]
    /\ UNCHANGED item
    /\ UNCHANGED <<evars, notR>>

\* self.zot.children(...): lines 224-229.
RChildren ==
    /\ rpc = "children"
    /\ requests' = requests + 1
    /\ \E ok \in BOOLEAN, has_pdf \in BOOLEAN :
        IF ~ok THEN REnd("raised")
        ELSE IF ~has_pdf THEN REnd("False")
        ELSE rpc' = "dump" /\ rresult' = rresult /\ temp_dir' = temp_dir
    /\ UNCHANGED <<item, force_update, gens, refreshes, rstart>>
    /\ UNCHANGED <<evars, notR>>

\* with tempfile.TemporaryDirectory(): self.zot.dump(...): lines 239-242.
RDump ==
    /\ rpc = "dump"
    /\ requests' = requests + 1
    /\ \E ok \in BOOLEAN :
        IF ok
        THEN rpc' = "text" /\ rresult' = rresult /\ temp_dir' = TRUE
        ELSE REnd("raised")
    /\ UNCHANGED <<item, force_update, gens, refreshes, rstart>>
    /\ UNCHANGED <<evars, notR>>

\* The text of the PDF is read: lines 245-253.
RText ==
    /\ rpc = "text"
    /\ \E ok \in BOOLEAN :
        IF ok
        THEN rpc' = "extract" /\ rresult' = rresult /\ temp_dir' = temp_dir
        ELSE REnd("raised")
    /\ UNCHANGED <<item, force_update, requests, gens, refreshes, rstart>>
    /\ UNCHANGED <<evars, notR>>

\* extract_metadata, _format_metadata_for_zotero and the update of the item's
\* data: lines 256-263.
RExtract ==
    /\ rpc = "extract"
    /\ \E r \in RefreshReplies :
        /\ Extract(r)
        /\ gens' = gens + 1
        /\ IF ExtractResult(r).kind = "returned"
           THEN /\ formatted' = format_metadata_for_zotero(r.data)
                /\ item' = UpdatedItem(item, format_metadata_for_zotero(r.data))
                /\ rpc' = "write" /\ rresult' = rresult /\ temp_dir' = temp_dir
           ELSE /\ formatted' = formatted
                /\ item' = item
                /\ REnd("raised")
    /\ UNCHANGED <<force_update, requests, refreshes, rstart>>
    /\ UNCHANGED notR

\* self.zot.update_item(item); return True: lines 264-266.
RWrite ==
    /\ rpc = "write"
    /\ requests' = requests + 1
    /\ \E ok \in BOOLEAN : IF ok THEN REnd("True") ELSE REnd("raised")
    /\ UNCHANGED <<item, force_update, gens, refreshes, rstart>>
    /\ UNCHANGED <<evars, notR>>

RNext ==
    \/ RStart
    \/ RChildren
    \/ RDump
    \/ RText
    \/ RExtract
    \/ RWrite

\* ------------------------------------------ ZoteroClient.check_duplicate

\* The index in listing atts of the first attachment whose md5 is h, 0 when
\* there is none: the loop of lines 133-137.
FirstMatch(atts, h) ==
    IF \E i \in 1..Len(atts) : atts[i].md5 = h
    THEN CHOOSE i \in 1..Len(atts) :
            atts[i].md5 = h /\ \A k \in 1..(i - 1) : atts[k].md5 # h
    ELSE 0

\* No hash is ever found in the cache.
InCacheNever(cache, h) == FALSE

\* file_hash in self.duplicate_cache
InCache(cache, h) == cache[h] # -1

NoCheck ==
    [hash |-> "none", result |-> [kind |-> "none", id |-> 0], requests |-> 0,
     loaded |-> <<>>, repeat |-> FALSE, expected |-> 0]

\* The record of the calls that found no duplicate, after a call for hash h has
\* returned id.
AwaitedAfter(h, id) == [awaited EXCEPT ![h] = [neg |-> id = 0, added |-> 0]]

DInit ==
    /\ duplicate_cache = [h \in Hashes |-> -1]
    /\ checks = 0
    /\ dlast = NoCheck
    /\ firstId = [h \in Hashes |-> 0]
    /\ awaited = [h \in Hashes |-> [neg |-> FALSE, added |-> 0]]

\* An attachment is added to the catalog, under a new parent item, under an
\* existing one, or on its own.
AddAttachment ==
    /\ Len(attachments) < MaxListing
    /\ \E h \in Hashes, k \in 0..(Len(parents) + 1) :
        /\ attachments' = Append(attachments, [md5 |-> h, parentItem |-> k])
        /\ parents' = IF k = Len(parents) + 1
                      THEN Append(parents, [written |-> TRUE, accessDate |-> "absent"])
                      ELSE parents
        /\ awaited' = IF awaited[h].neg /\ awaited[h].added = 0 /\ k # 0
                      THEN [awaited EXCEPT ![h].added = k]
                      ELSE awaited
    /\ UNCHANGED <<duplicate_cache, checks, dlast, firstId>>
    /\ UNCHANGED notD

\* check_duplicate(h): the cached value if there is one; else the attachments
\* are requested (self.zot.attachments(), then self.zot.everything through
\* _handle_request), and either request may raise; the parentItem of the first
\* attachment with md5 h is cached and returned, None when there is none.
CheckDuplicate ==
    /\ checks < MaxChecks
    /\ checks' = checks + 1
    /\ \E h \in Hashes :
        IF InCache(duplicate_cache, h)
        THEN /\ dlast' = [hash |-> h,
                          result |-> [kind |-> "returned", id |-> duplicate_cache[h]],
                          requests |-> 0, loaded |-> <<>>,
                          repeat |-> firstId[h] # 0,
                          expected |-> awaited[h].added]
             /\ awaited' = AwaitedAfter(h, duplicate_cache[h])
             /\ UNCHANGED <<duplicate_cache, firstId>>
        ELSE \E sent \in {1, 2}, ok \in BOOLEAN :
             IF ~ok
             THEN /\ dlast' = [hash |-> h, result |-> [kind |-> "raised", id |-> 0],
                               requests |-> sent, loaded |-> <<>>,
                               repeat |-> firstId[h] # 0,
                               expected |-> awaited[h].added]
                  /\ UNCHANGED <<duplicate_cache, firstId, awaited>>
             ELSE LET m == FirstMatch(attachments, h)
                      parent_item == IF m = 0 THEN 0 ELSE attachments[m].parentItem
                  IN  /\ dlast' = [hash |-> h,
                                   result |-> [kind |-> "returned", id |-> parent_item],
                                   requests |-> 2, loaded |-> attachments,
                                   repeat |-> firstId[h] # 0,
                                   expected |-> awaited[h].added]
                      /\ awaited' = AwaitedAfter(h, parent_item)
                      /\ duplicate_cache' =
                            IF m = 0 THEN duplicate_cache
                            ELSE [duplicate_cache EXCEPT ![h] = parent_item]
                      /\ firstId' = IF firstId[h] = 0
                                    THEN [firstId EXCEPT ![h] = parent_item]
                                    ELSE firstId
    /\ UNCHANGED <<parents, attachments>>
    /\ UNCHANGED notD

DNext ==
    \/ AddAttachment
    \/ CheckDuplicate

\* ------------------------------------------ ZoteroClient.update_metadata

\* The keys of an item's data, and the values a key holds; "absent" stands for
\* a key the dict does not have.
DataKeys == {"title", "date", "extra"}

DataValues == {"absent", "a", "b"}

Dicts == [DataKeys -> DataValues]

EmptyDict == [k \in DataKeys |-> "absent"]

\* The dict is replaced by the new one.
update_replace(data, new) == new

\* dict.update: every key of new is set to its new value, the others stay.
update(data, new) ==
    [k \in DataKeys |-> IF new[k] # "absent" THEN new[k] ELSE data[k]]

UInit ==
    /\ stored \in Dicts
    /\ ufields = EmptyDict
    /\ ufetched = EmptyDict
    /\ ulocal = EmptyDict
    /\ upc = "idle"
    /\ updates = 0

UIdle == UInit /\ stored = EmptyDict

\* update_metadata(item_key, metadata), lines 186-187: the item is fetched
\* (the request may raise) and the new fields are merged into its data.
UpdateFetch ==
    /\ upc \in {"idle", "done", "raised"}
    /\ updates < MaxUpdates
    /\ updates' = updates + 1
    /\ \E new \in Dicts, ok \in BOOLEAN :
        /\ ufields' = new
        /\ IF ok
           THEN /\ ufetched' = stored
                /\ ulocal' = update(stored, new)
                /\ upc' = "fetched"
           ELSE /\ ufetched' = EmptyDict
                /\ ulocal' = EmptyDict
                /\ upc' = "raised"
    /\ UNCHANGED stored
    /\ UNCHANGED notU

\* update_metadata, line 188: the merged item is persisted, or the request
\* raises and the catalog keeps what it had.
UpdatePersist ==
    /\ upc = "fetched"
    /\ \E ok \in BOOLEAN :
        IF ok
        THEN stored' = ulocal /\ upc' = "done"
        ELSE stored' = stored /\ upc' = "raised"
    /\ UNCHANGED <<ufields, ufetched, ulocal, updates>>
    /\ UNCHANGED notU

UNext ==
    \/ UpdateFetch
    \/ UpdatePersist

\* ------------------------------ MetadataExtractor._extract_json_from_text

\* The characters of a text: the two braces and one other character.
Chars == {"{", "}", "a"}

Texts == UNION {[1..n -> Chars] : n \in 0..MaxTextLen}

\* str.find(c): the 0-based index of the first c in t, -1 when there is none.
find(t, c) ==
    IF \E i \in 1..Len(t) : t[i] = c
    THEN (CHOOSE i \in 1..Len(t) : t[i] = c /\ \A k \in 1..(i - 1) : t[k] # c) - 1
    ELSE -1

\* str.rfind(c): the 0-based index of the last c in t, -1 when there is none.
rfind(t, c) ==
    IF \E i \in 1..Len(t) : t[i] = c
    THEN (CHOOSE i \in 1..Len(t) : t[i] = c /\ \A k \in (i + 1)..Len(t) : t[k] # c) - 1
    ELSE -1

\* t[start:stop] with the last character left out.
SliceShort(t, start, stop) == SubSeq(t, start + 1, stop - 1)

\* t[start:stop] for 0 <= start and 0 <= stop <= len(t): the characters at the
\* 0-based indices start .. stop - 1, none when stop <= start.
Slice(t, start, stop) == SubSeq(t, start + 1, stop)

NoJson == [kind |-> "none", exc |-> "none", str |-> <<>>]

\* _extract_json_from_text(t): the string returned, or the exception.
extract_json_from_text(t) ==
    LET start == find(t, "{")
        end == rfind(t, "}")
    IN  IF start = -1 \/ end = -1
        THEN [kind |-> "raised", exc |-> "ValueError", str |-> <<>>]
        ELSE [kind |-> "returned", exc |-> "none", str |-> Slice(t, start, end + 1)]

JInit ==
    /\ text \in Texts
    /\ jpc = "ready"
    /\ jresult = NoJson

\* The state of this machine in the specifications of the other machines.
JIdle ==
    /\ text = <<>>
    /\ jpc = "ready"
    /\ jresult = NoJson

\* _extract_json_from_text(text) is called.
ExtractJson ==
    /\ jpc = "ready"
    /\ jpc' = "done"
    /\ jresult' = extract_json_from_text(text)
    /\ UNCHANGED text
    /\ UNCHANGED notJ

JNext == ExtractJson

\* --------------------------------------------------------- specifications

WrapperInit == WInit /\ PIdle /\ MIdle /\ EIdle /\ XIdle /\ JIdle /\ RIdle /\ DInit /\ UIdle

WrapperSpec == WrapperInit /\ [][WNext]_vars

PdfInit == PInit /\ WInit /\ MIdle /\ EIdle /\ XIdle /\ JIdle /\ RIdle /\ DInit /\ UIdle

PdfSpec == PdfInit /\ [][PNext]_vars

MainInit == MInit /\ WInit /\ PIdle /\ EIdle /\ XIdle /\ JIdle /\ RIdle /\ DInit /\ UIdle

MainSpec == MainInit /\ [][MNext]_vars

ExtractInit == EInit /\ WInit /\ PIdle /\ MIdle /\ XIdle /\ JIdle /\ RIdle /\ DInit /\ UIdle

ExtractSpec == ExtractInit /\ [][ENext]_vars

JsonInit == JInit /\ WInit /\ PIdle /\ MIdle /\ EIdle /\ XIdle /\ RIdle /\ DInit /\ UIdle

UsageInit == XInit /\ EIdle /\ WInit /\ PIdle /\ MIdle /\ JIdle /\ RIdle /\ DInit /\ UIdle

UsageSpec == UsageInit /\ [][XNext]_vars

RefreshInit == RInit /\ EIdle /\ XIdle /\ WInit /\ PIdle /\ MIdle /\ JIdle /\ DInit /\ UIdle

RefreshSpec == RefreshInit /\ [][RNext]_vars

DuplicateInit ==
    DInit /\ WInit /\ PIdle /\ MIdle /\ EIdle /\ XIdle /\ JIdle /\ RIdle /\ UIdle

DuplicateSpec == DuplicateInit /\ [][DNext]_vars

JsonSpec == JsonInit /\ [][JNext]_vars

UpdateInit ==
    UInit /\ WInit /\ PIdle /\ MIdle /\ EIdle /\ XIdle /\ JIdle /\ RIdle /\ DInit

UpdateSpec == UpdateInit /\ [][UNext]_vars

\* ------------------------------------------------------------------ claims

\* C1: once process_pdf has returned for a PDF with hash h, a later process_pdf
\* call for a PDF with hash h creates nothing in the catalog, and when its
\* duplicate check has read the catalog's attachments it ends with the
\* duplicate rejection.
C1_SecondSubmissionRejected ==
    hadSucceeded =>
        /\ <<Len(parents), Len(attachments)>> = startSizes
        /\ (Len(plog) >= 2 \/ (ppc = "done" /\ outcome.at = "dupcheck")) =>
                outcome \in {DuplicateRaise, Failure("dupcheck")}

\* C6: every catalog request, of the client's operations and of process_pdf, is
\* sent by the rate-limit wrapper.
C6_EveryRequestWrapped == sentWrapped /\ pSentWrapped

\* C7: the steps of a process_pdf call succeed in the order hash, duplicate
\* check, item creation, text extraction, metadata extraction, write: a parent
\* item exists for the call only once the duplicate check has found nothing,
\* its metadata is written only once metadata extraction has succeeded, and the
\* call returns only when every step has succeeded.
C7_StepsInOrder ==
    LET order == <<"hash", "dupcheck", "create_parent", "get_parent",
                   "create_attachment", "text", "metadata", "write">>
        has(s) == \E i \in 1..Len(plog) : plog[i] = s
    IN  /\ Len(plog) <= Len(order)
        /\ plog = SubSeq(order, 1, Len(plog))
        /\ Len(parents) >= startSizes[1]
        /\ (parent_key # 0 \/ Len(parents) > startSizes[1]) =>
                (has("dupcheck") /\ ~dupFound /\ parent_key = Len(parents))
        /\ Len(attachments) > startSizes[2] => has("create_parent")
        /\ (parent_key # 0 /\ parents[parent_key].written) =>
                (has("metadata") /\ has("text"))
        /\ (outcome.kind = "return") => (plog = order /\ ppc = "done")

C7_Witness == outcome = Returned /\ Len(plog) = 8 /\ parents[parent_key].written

\* C8: when the duplicate check finds the file's hash among the catalog's
\* attachments, the call ends there with the duplicate outcome, which no
\* other step's failure equals, and creates nothing.
C8_DuplicateIsSkipped ==
    hashInCatalog =>
        /\ ppc = "done"
        /\ outcome = DuplicateRaise
        /\ \A s \in {"hash", "dupcheck", "create_parent", "get_parent",
                     "create_attachment", "text", "metadata", "write"} :
                Failure(s) # outcome
        /\ parent_key = 0

\* C2: once the wrapper has handled a response carrying Retry-After: n, the next
\* request the client sends is not sent before n seconds have passed since then.
C2_RetryAfterDelaysNextRequest == earlyBy = 0

\* C3: one _handle_request call invokes func at most 3 times; it raises the
\* terminal error exactly after 3 throttled attempts; a call in its loop can
\* always take a step, and every step leaves the loop or counts one more retry,
\* of which there are at most 3: the call ends with a response or an error.
C3_AtMostThreeAttempts ==
    /\ [](calls <= 3 /\ retry_count <= 3)
    /\ [](wst = "exhausted" =>
            calls = 3 /\ retry_count = 3 /\ lastKind \in {"err429", "errBackoff"})
    /\ [](wst = "loop" /\ calls = 3 => ~ENABLED WrapperAttempt)
    /\ [](wst = "loop" => ENABLED (WrapperAttempt \/ WrapperExhausted))
    /\ [][wst = "loop" =>
            \/ wst' \in {"returned", "raised", "exhausted"}
            \/ (wst' = "loop" /\ retry_count' = retry_count + 1)]_vars

C3_Witness == wst = "exhausted" /\ calls = 3 /\ lastKind = "err429"

\* C4 as stated: a 429 rejection and any response carrying a Backoff header both
\* lead to a retry of the same call.
C4_RetriesOnAnyBackoffResponse ==
    (wst # "none" /\ calls >= 1 /\ lastKind \in {"err429", "errBackoff", "okBackoff"})
        => wst \in {"loop", "exhausted"}

\* C4 amended: the call is tried again (3 attempts at most, no retry sent before
\* the wait-until time its rejected response named) when it raised a 429
\* rejection or an error whose response carries a Backoff header; a call that
\* returned a response is not tried again, with or without a Backoff header.
C4_RetriesOnThrottlingErrors ==
    (wst # "none" /\ calls >= 1) =>
        /\ lastKind \in {"err429", "errBackoff"} =>
                /\ wst \in {"loop", "exhausted"}
                /\ retry_count = calls
                /\ calls <= 3
                /\ (wst = "loop" /\ calls < 3) => ENABLED WrapperAttempt
        /\ lastKind \in {"ok", "okBackoff"} => wst = "returned"
        /\ retryEarlyBy = 0

C4_Witness ==
    wst = "loop" /\ calls = 2 /\ retry_count = 2 /\ lastKind = "errBackoff" /\ now >= 2

C9_BatchSurvivesItemFailure ==
    (mpc = "over" /\ ~single) =>
        /\ (env_ok /\ rules_ok) => Len(results) = nitems
        /\ (~env_ok \/ ~rules_ok) => Len(results) = 0

\* C10: extract_metadata returns metadata only if every entry of 'authors' has
\* exactly one of the two shapes: lastName and firstName both non-null, or
\* denomination non-null.
C10_AuthorsExclusive ==
    (eresult.kind = "returned") =>
        \A i \in 1..Len(eresult.data.authors.items) :
            LET a == eresult.data.authors.items[i]
                named == a.lastName # "null" /\ a.firstName # "null"
                titled == a.denomination # "null"
            IN  a.dict /\ (named \/ titled) /\ ~(named /\ titled)

\* C11: extract_metadata returns metadata only if every entry of 'tags' is an
\* object whose 'tag' is a string that starts with "./" and has more than 2
\* characters; a reply with an entry that has no 'tag' key, a tag without the
\* prefix or the tag "./" ends in a ValueError.
C11_TagsHavePrefixAndName ==
    /\ (eresult.kind = "returned") =>
            \A i \in 1..Len(eresult.data.tags.items) :
                LET e == eresult.data.tags.items[i]
                IN  /\ e.kind = "str"
                    /\ Len(e.chars) > 2
                    /\ SubSeq(e.chars, 1, 2) = <<".", "/">>
    /\ (/\ epc # "ready"
        /\ reply.gen = "ok" /\ reply.json = "ok"
        /\ \E i \in 1..Len(reply.data.tags.items) :
            \/ reply.data.tags.items[i].kind = "nokey"
            \/ reply.data.tags.items[i].chars \in {<<".", "/">>, <<"a", "b", "c">>})
       => (eresult.kind = "raised" /\ eresult.exc = "ValueError")

\* A reply whose only fault is the tag "./" has been refused.
C11_Witness ==
    /\ epc # "ready"
    /\ eresult.kind = "raised"
    /\ AuthorsAccepted(reply.data.authors)
    /\ DateAccepted(reply.data.date)
    /\ reply.data.tags.kind = "list"
    /\ Len(reply.data.tags.items) = 1
    /\ reply.data.tags.items[1] = [kind |-> "str", chars |-> <<".", "/">>]

C13_UsageAddedOncePerGeneration ==
    [][ /\ (ncalls' = ncalls + 1) =>
            LET generated == RequiredFiles \subseteq files /\ reply'.gen = "ok"
            IN  /\ total_input_tokens' = total_input_tokens
                        + (IF generated THEN reply'.usage.input_tokens ELSE 0)
                /\ total_output_tokens' = total_output_tokens
                        + (IF generated THEN reply'.usage.output_tokens ELSE 0)
        /\ (ncalls' = ncalls) =>
            UNCHANGED <<total_input_tokens, total_output_tokens>>
        /\ total_input_tokens' >= total_input_tokens
        /\ total_output_tokens' >= total_output_tokens ]_vars

\* A second call's usage has been added although its reply was refused.
C13_Witness ==
    /\ ncalls = 2
    /\ reply.gen = "ok"
    /\ eresult.kind = "raised"
    /\ reply.usage.input_tokens > 0
    /\ total_input_tokens > reply.usage.input_tokens
    /\ total_output_tokens > reply.usage.output_tokens

\* The totals that result from adding the usages of s, one after the other.
RECURSIVE Replay(_)
Replay(s) ==
    IF s = <<>> THEN <<0, 0>>
    ELSE AddUsage(Replay(SubSeq(s, 1, Len(s) - 1)), s[Len(s)])

RECURSIVE SumOf(_, _)
SumOf(s, field) ==
    IF s = <<>> THEN 0 ELSE s[1][field] + SumOf(Tail(s), field)

\* C14: the totals after the calls made so far are the totals of every other
\* order of the same calls and the sums of their usages, and calculate_cost
\* reports these totals and their products with the provider's prices.
C14_TotalsAndCostIndependentOfOrder ==
    LET n == Len(made)
        sum_in == SumOf(made, "input_tokens")
        sum_out == SumOf(made, "output_tokens")
        price == Costs(llm_type)
    IN  /\ \A p \in Permutations(1..n) :
                Replay([i \in 1..n |-> made[p[i]]])
                    = <<total_input_tokens, total_output_tokens>>
        /\ total_input_tokens = sum_in
        /\ total_output_tokens = sum_out
        /\ (cost_report # NoReport) =>
            /\ cost_report.input_tokens = sum_in
            /\ cost_report.output_tokens = sum_out
            /\ cost_report.input_cost = sum_in * price.input_tokens
            /\ cost_report.output_cost = sum_out * price.output_tokens
            /\ cost_report.total_cost
                    = sum_in * price.input_tokens + sum_out * price.output_tokens

\* The cost has been reported after two calls of different usages.
C14_Witness ==
    /\ Len(made) >= 2
    /\ made[1] # made[2]
    /\ cost_report # NoReport
    /\ cost_report.input_cost > 0
    /\ cost_report.output_cost > 0

\* C16: constructing a MetadataExtractor while rules.txt or output.txt is
\* missing fails with FileNotFoundError before create_llm_provider is called,
\* and no extract_metadata call and no generation call is ever made on it.
C16_MissingFileFailsConstruction ==
    (ctor.state # "new" /\ ctor.missing # {}) =>
        /\ ctor.state = "failed"
        /\ ctor.exc = "FileNotFoundError"
        /\ ctor.provider = "none"
        /\ ncalls = 0
        /\ made = <<>>

\* The constructor has been called without output.txt.
C16_Witness ==
    /\ ctor.state = "failed"
    /\ ctor.missing = {"output.txt"}
    /\ llm_type \in LLMTypes

C17_SkipLeavesEverythingUnchanged ==
    (/\ refreshes > 0
     /\ ~force_update
     /\ rstart.item.title \notin {"", "null", "absent"}
     /\ rstart.item.abstractNote \notin {"", "null", "absent"})
    =>  /\ rpc = "done"
        /\ rresult = "False"
        /\ requests = 0
        /\ gens = 0
        /\ item = rstart.item
        /\ <<total_input_tokens, total_output_tokens>> = rstart.tokens

\* A second call, not forced, has skipped an item that a first call updated at
\* the price of a generation call.
C17_Witness ==
    /\ refreshes = 2
    /\ rpc = "done"
    /\ ~force_update
    /\ rresult = "False"
    /\ item.title = "X"
    /\ item.abstractNote = "Abstract"
    /\ total_input_tokens > 0
    /\ requests = 0

\* C18: after process_pdf has merged the values taken from the file name into
\* the extracted metadata, every key that the model returned still has the
\* model's value, in the metadata and in the item written to the catalog.
C18_ModelValuesSurviveMerge ==
    metadata.merged =>
        /\ \A k \in FilenameKeys : (extracted[k] = "model") => (metadata[k] = "model")
        /\ (outcome = Returned /\ extracted.accessDate = "model")
                => parents[parent_key].accessDate = "model"

\* C19: once a check_duplicate call has returned a parent key for a hash, every
\* later call for that hash returns the same key and sends no request; and the
\* key a scanning call returns is the parentItem of the first attachment of the
\* loaded list that has the hash.
C19_CachedIdReturnedWithoutRequest ==
    /\ dlast.repeat =>
            /\ dlast.result = [kind |-> "returned", id |-> firstId[dlast.hash]]
            /\ dlast.requests = 0
    /\ (dlast.result.kind = "returned" /\ dlast.requests > 0 /\ dlast.result.id # 0) =>
            \E i \in 1..Len(dlast.loaded) :
                /\ dlast.loaded[i].md5 = dlast.hash
                /\ \A k \in 1..(i - 1) : dlast.loaded[k].md5 # dlast.hash
                /\ dlast.result.id = dlast.loaded[i].parentItem

\* A repeated call has returned the parent of the first of two attachments
\* that have the hash, under different parents.
C19_Witness ==
    /\ dlast.repeat
    /\ Len(attachments) = 2
    /\ attachments[1].md5 = dlast.hash
    /\ attachments[2].md5 = dlast.hash
    /\ attachments[1].parentItem # 0
    /\ attachments[2].parentItem \notin {0, attachments[1].parentItem}
    /\ dlast.result.id = attachments[1].parentItem

\* C20: no temporary copy of a PDF made while refreshing an item is left once
\* the refresh has ended, whether it returned or raised.
C20_TempCopiesRemoved ==
    /\ temp_files = 0
    /\ (rpc \in {"idle", "done"}) => ~temp_dir

\* C21: when update_metadata has persisted the item, the stored data has the
\* new value for every key of the fields and the fetched value for every other
\* key, and no key the fetched data had is missing.
C21_MergeOverwritesAndPreserves ==
    upc = "done" =>
        /\ \A k \in DataKeys :
              stored[k] = IF ufields[k] # "absent" THEN ufields[k] ELSE ufetched[k]
        /\ \A k \in DataKeys : ufetched[k] # "absent" => stored[k] # "absent"

\* An update that overwrote one key, added another and left a third alone.
C21_Witness ==
    /\ upc = "done"
    /\ \E k \in DataKeys :
          ufetched[k] # "absent" /\ ufields[k] # "absent" /\ ufields[k] # ufetched[k]
    /\ \E k \in DataKeys : ufetched[k] = "absent" /\ ufields[k] # "absent"
    /\ \E k \in DataKeys :
          ufetched[k] # "absent" /\ ufields[k] = "absent" /\ stored[k] = ufetched[k]

\* C22: the duplicate check reports a duplicate exactly when some attachment of
\* the catalog has the file's hash, with or without a parent item.
C22_VerdictDependsOnHashOnly == dupFound <=> hashInCatalog

\* C23: when a step of process_pdf raises after the parent item was created,
\* the parent item is still in the catalog and has not received the metadata;
\* the attachment is still there when its creation had succeeded, and was not
\* created otherwise.
C23_NoRollbackAfterParent ==
    (/\ outcome.kind = "raise"
     /\ outcome.at \in {"get_parent", "create_attachment", "text", "metadata", "write"}) =>
        /\ Len(parents) = startSizes[1] + 1
        /\ parent_key = Len(parents)
        /\ ~parents[parent_key].written
        /\ IF outcome.at \in {"text", "metadata", "write"}
           THEN /\ Len(attachments) = startSizes[2] + 1
                /\ attachments[Len(attachments)].parentItem = parent_key
           ELSE Len(attachments) = startSizes[2]

\* The final write raised: the parent and its attachment are in the catalog,
\* the parent without metadata.
C23_Witness ==
    /\ ppc = "done"
    /\ outcome = Failure("write")
    /\ ~parents[parent_key].written
    /\ \E i \in 1..Len(attachments) : attachments[i].parentItem = parent_key

C25_SecondRefreshSkips ==
    (rpc # "idle" /\ rstart.after = "True" /\ ~force_update) =>
        /\ rpc = "done"
        /\ rresult = "False"
        /\ gens = 0
        /\ requests = 0

\* C26: a string that _extract_json_from_text returns is not empty, begins
\* with '{' and ends with '}'.
C26_ReturnedStringIsBraced ==
    (jpc = "done" /\ jresult.kind = "returned") =>
        /\ Len(jresult.str) > 0
        /\ jresult.str[1] = "{"
        /\ jresult.str[Len(jresult.str)] = "}"

\* C27: when a check_duplicate call for a hash has returned no duplicate and an
\* attachment with that hash and a parent item was added afterwards, the next
\* call for the hash that returns has requested the attachments again and
\* returns that parent.
C27_NegativeResultNotCached ==
    (dlast.expected # 0 /\ dlast.result.kind = "returned") =>
        /\ dlast.requests = 2
        /\ dlast.result.id = dlast.expected

====
